---------------------------- MODULE Spec2Model ----------------------------
(***************************************************************************)
(* Paid-media advisor: the keyword segment filter (segment_insight), the   *)
(* ROI scoring / explanation / projection tool (_predict_and_explain), the *)
(* three-node LangGraph workflow (flow.py) and the /recommend handler      *)
(* (main.py) that runs the workflow and post-processes its result.         *)
(*                                                                         *)
(* Numbers are fixed point: roi in thousandths, cost_per_click and cpm in  *)
(* hundredths, clicks and budgets in units, model predictions in 1e-5.     *)
(* A text that the program searches or rewrites (a query, a strategy text, *)
(* a keyword) is the sequence of its characters, Chars("...").             *)
(* An optional value (Python None / a key not yet in the state dict) is    *)
(* the empty tuple <<>>; a present value v is <<v>>.                       *)
(***************************************************************************)
EXTENDS Integers, Sequences, FiniteSets, TLC

VARIABLES
    df,         \* the module-level DataFrame of segment_insight_tool.py
    booster,    \* the module-level xgb.Booster of performance_analysis_tool.py
    workers,    \* the request threads that serve /recommend
    pc,         \* per request thread: where its invocation stands
    state,      \* per request thread: the FlowState of its graph run
    ran,        \* per request thread: the nodes its graph run has executed
    calls,      \* per request thread: booster.predict calls it has made
    synthetic,  \* per request thread: the synthetic frame it has scored
    llm,        \* per request thread: what chain.run did in its graph run
    response    \* per request thread: the RecommendResponse it returned

vars == <<df, booster, workers, pc, state, ran, calls, synthetic, llm, response>>

(***************************************************************************)
(* Bounds of the model.                                                    *)
(***************************************************************************)
\* Longest dataset (rows of data/campaign_data.csv) that Init draws, and
\* the longest that InitConcurrent draws.
MaxRows == 3
MaxRowsConcurrent == 1

\* The request threads that are modelled.
Slots == {1, 2}

None == <<>>
Some(v) == <<v>>

(***************************************************************************)
(* Text helpers: str.lower, str.strip, the `in` substring test.            *)
(***************************************************************************)
UpperChars == "ABCDEFGHIJKLMNOPQRSTUVWXYZ"
LowerChars == "abcdefghijklmnopqrstuvwxyz"
DigitChars == "0123456789"

CharAt(s, i) == SubSeq(s, i, i)

IndexIn(c, alphabet) ==
    IF \E i \in 1..Len(alphabet) : CharAt(alphabet, i) = c
    THEN CHOOSE i \in 1..Len(alphabet) : CharAt(alphabet, i) = c
    ELSE 0

UpperSet == { CharAt(UpperChars, i) : i \in 1..Len(UpperChars) }
DigitSet == { CharAt(DigitChars, i) : i \in 1..Len(DigitChars) }

LowerChar(c) ==
    IF c \in UpperSet THEN CharAt(LowerChars, IndexIn(c, UpperChars)) ELSE c

\* A str as the sequence of its characters.
Chars(s) == [i \in 1..Len(s) |-> CharAt(s, i)]

\* str.lower(), character by character.
Lower(cs) == [i \in 1..Len(cs) |-> LowerChar(cs[i])]

RECURSIVE LStrip(_)
LStrip(cs) == IF Len(cs) > 0 /\ Head(cs) = " " THEN LStrip(Tail(cs)) ELSE cs

RECURSIVE RStrip(_)
RStrip(cs) ==
    IF Len(cs) > 0 /\ cs[Len(cs)] = " "
    THEN RStrip(SubSeq(cs, 1, Len(cs) - 1))
    ELSE cs

Strip(s) == RStrip(LStrip(s))

\* Python's `needle in haystack`.
Contains(haystack, needle) ==
    \E i \in 1..(Len(haystack) - Len(needle) + 1) :
        \A j \in 1..Len(needle) : haystack[i + j - 1] = needle[j]

(***************************************************************************)
(* The campaign dataset.                                                   *)
(***************************************************************************)
Rec(bu, ch, rg, roi, clicks, cpc, cpm) ==
    [business_unit |-> bu, channel |-> ch, region |-> rg, roi |-> roi,
     clicks |-> clicks, cost_per_click |-> cpc, cpm |-> cpm]

\* Rows a dataset is drawn from: mixed-case column values, a column value
\* that merely contains a keyword, and roi / cost_per_click on, just below
\* and just above the thresholds of the filter and of the partition.
CampaignRecords ==
    { Rec("Watson",   "Paid Search", "north america",  2500, 4000, 250, 1200),
      Rec("watson",   "paid search", "Europe",          150, 9000, 201,  800),
      Rec("cloud",    "Display",     "eastern europe", 1999,  500, 200,  650),
      Rec("security", "paid social", "asia",           1000, 7000,   0,  300) }

RECURSIVE SeqsUpTo(_, _)
SeqsUpTo(S, n) ==
    IF n = 0 THEN { <<>> }
    ELSE LET shorter == SeqsUpTo(S, n - 1)
         IN shorter \cup { Append(s, x) : s \in { t \in shorter : Len(t) = n - 1 }, x \in S }

Datasets(longest) == SeqsUpTo(CampaignRecords, longest)

(***************************************************************************)
(* segment_insight: the keyword filter.                                    *)
(***************************************************************************)
\* keyword_map, in the dict's insertion order.
keyword_map ==
    << [col |-> "region",
        keywords |-> <<Chars("north america"), Chars("europe"), Chars("asia")>>],
       [col |-> "business_unit",
        keywords |-> <<Chars("gbs"), Chars("watson"), Chars("cloud"), Chars("security"),
                       Chars("analytics")>>],
       [col |-> "channel",
        keywords |-> <<Chars("display"), Chars("paid search"), Chars("paid social")>>] >>

Column(row, col) ==
    CASE col = "region" -> row.region
      [] col = "business_unit" -> row.business_unit
      [] col = "channel" -> row.channel

\* A filter that keeps the rows whose column value contains the keyword.
FilterContains(rows, col, keyword) ==
    SelectSeq(rows, LAMBDA row : Contains(Lower(Chars(Column(row, col))), keyword))

\* filtered[filtered[col].str.lower() == keyword]
FilterEq(rows, col, keyword) ==
    SelectSeq(rows, LAMBDA row : Lower(Chars(Column(row, col))) = keyword)

\* The inner loop over one column's keywords: every keyword found in the
\* query re-filters the rows that the previous ones left.
RECURSIVE FilterKeywords(_, _, _, _)
FilterKeywords(rows, query, col, keywords) ==
    IF keywords = <<>> THEN rows
    ELSE LET k == Head(keywords)
             kept == IF Contains(query, k) THEN FilterEq(rows, col, k) ELSE rows
         IN FilterKeywords(kept, query, col, Tail(keywords))

\* The outer loop over keyword_map.items().
RECURSIVE FilterColumns(_, _, _)
FilterColumns(rows, query, entries) ==
    IF entries = <<>> THEN rows
    ELSE LET e == Head(entries)
         IN FilterColumns(FilterKeywords(rows, query, e.col, e.keywords), query, Tail(entries))

LowRoiPhrase == Chars("low roi")
HighCpcPhrase == Chars("high cpc")

LowRoiThreshold == 200
HighCpcThreshold == 200

FilterLowRoi(rows, query) ==
    IF Contains(query, LowRoiPhrase)
    THEN SelectSeq(rows, LAMBDA row : row.roi < LowRoiThreshold)
    ELSE rows

FilterHighCpc(rows, query) ==
    IF Contains(query, HighCpcPhrase)
    THEN SelectSeq(rows, LAMBDA row : row.cost_per_click > HighCpcThreshold)
    ELSE rows

\* A filter that narrows the module's frame itself.
FrameFilteredInPlace(data, q) ==
    LET query == Lower(q)
    IN FilterHighCpc(FilterLowRoi(FilterColumns(data, query, keyword_map), query), query)

\* filtered = df.copy(): the filter narrows a copy, and the module's frame
\* is after the call what it was before.
FrameAfterFilter(data, q) == data

\* The tool's result, {"segment_insight": <json>}: the JSON text of the
\* filtered rows is modelled by the rows it lists, "[]" by the empty list.
\* (to_json keeps 10 decimals; the fixed-point rows hold 3 at most.)
segment_insight(data, q) ==
    LET query == Lower(q)
        filtered == FilterHighCpc(FilterLowRoi(FilterColumns(data, query, keyword_map), query), query)
    IN IF filtered = <<>> THEN <<>> ELSE filtered

(***************************************************************************)
(* _predict_and_explain: scoring, explanation and budget projection.       *)
(***************************************************************************)
\* A float that is a ratio of fixed-point sums: num / den, den > 0.
Rat(n, d) == [num |-> n, den |-> d]

RatLess(r, k) == r.num < k * r.den

\* round(): to the nearest unit of the coarser scale, a tie to the even one.
RoundHalfEven(n, d) ==
    LET q == n \div d
        r == n % d
    IN IF 2 * r < d THEN q
       ELSE IF 2 * r > d THEN q + 1
       ELSE IF q % 2 = 0 THEN q ELSE q + 1

RECURSIVE SumOf(_, _)
SumOf(rows, col) ==
    IF rows = <<>> THEN 0
    ELSE (CASE col = "cost_per_click" -> Head(rows).cost_per_click
            [] col = "cpm" -> Head(rows).cpm
            [] col = "predicted_roi" -> Head(rows).predicted_roi)
         + SumOf(Tail(rows), col)

\* segment_df[["clicks", "cost_per_click", "cpm"]] of one row; the fixed
\* point columns become real values (cost_per_click and cpm / 100).
Features(row) ==
    [clicks |-> Rat(row.clicks, 1),
     cost_per_click |-> Rat(row.cost_per_click, 100),
     cpm |-> Rat(row.cpm, 100)]

\* The loaded gradient-boosted model (tools/xgb_model.json), an external
\* artifact: one regression tree over clicks and cost_per_click with leaves
\* in 1e-5, and the gain of each feature it splits on (get_score lists no
\* feature it never uses), in thousandths.  rows_ok / synthetic_ok say
\* whether DMatrix + predict accept the segment's frame and the synthetic
\* frame or raise (feature names or dtypes the model rejects, an infinite
\* value): the same artifact answers the same way every time.
Boosters ==
    { [rows_ok |-> r, synthetic_ok |-> s,
       gain |-> << [feature |-> "clicks", gain |-> 15234],
                   [feature |-> "cost_per_click", gain |-> 48917] >>] :
      r \in BOOLEAN, s \in BOOLEAN }
    \ { [rows_ok |-> FALSE, synthetic_ok |-> FALSE,
         gain |-> << [feature |-> "clicks", gain |-> 15234],
                     [feature |-> "cost_per_click", gain |-> 48917] >>] }

\* booster.predict on one feature vector.
TreePredict(x) ==
    IF RatLess(x.clicks, 5000)
    THEN IF RatLess(x.cost_per_click, 2) THEN 123456 ELSE 80004
    ELSE 251234

\* segment_df["predicted_roi"] = predictions
WithPredictions(rows) ==
    [i \in 1..Len(rows) |->
        [business_unit |-> rows[i].business_unit, channel |-> rows[i].channel,
         region |-> rows[i].region, roi |-> rows[i].roi, clicks |-> rows[i].clicks,
         cost_per_click |-> rows[i].cost_per_click, cpm |-> rows[i].cpm,
         predicted_roi |-> TreePredict(Features(rows[i]))]]

HighRoiThreshold == 2000
LowPerformerThreshold == 1000

\* A partition that reads the predicted ROI (in 1e-5) instead.
HighRowsByPrediction(rows) == SelectSeq(rows, LAMBDA row : row.predicted_roi > 200000)

\* segment_df[segment_df["roi"] > 2.0]
HighRows(rows) == SelectSeq(rows, LAMBDA row : row.roi > HighRoiThreshold)

\* segment_df[segment_df["roi"] < 1.0]
LowRows(rows) == SelectSeq(rows, LAMBDA row : row.roi < LowPerformerThreshold)

\* f"{business_unit} | {channel} | {region} -> ROI: {round(roi, 2)}": the
\* label is modelled by the four values it interpolates, roi in hundredths.
format_campaign(row) ==
    [business_unit |-> row.business_unit, channel |-> row.channel,
     region |-> row.region, roi |-> RoundHalfEven(row.roi, 10)]

Labels(rows) == [i \in 1..Len(rows) |-> format_campaign(rows[i])]

\* sorted(importance.items(), key=gain, reverse=True): stable insertion.
RECURSIVE InsertDesc(_, _)
InsertDesc(sorted, e) ==
    IF sorted = <<>> THEN <<e>>
    ELSE IF Head(sorted).gain >= e.gain
         THEN <<Head(sorted)>> \o InsertDesc(Tail(sorted), e)
         ELSE <<e>> \o sorted

RECURSIVE SortDesc(_)
SortDesc(items) ==
    IF items = <<>> THEN <<>>
    ELSE InsertDesc(SortDesc(SubSeq(items, 1, Len(items) - 1)), items[Len(items)])

\* ", ".join(f"{k} ({round(v, 2)})"): the joined text is modelled by the
\* list of its parts, the empty text "" by the empty list.
Explanation(b) ==
    LET top == SortDesc(b.gain)
    IN [i \in 1..Len(top) |-> [feature |-> top[i].feature, gain |-> RoundHalfEven(top[i].gain, 10)]]

IsAmountChar(c) == c = "," \/ c \in DigitSet

\* Where re.search(r"\$?([\d,]+)") matches at; 0 when it does not match.
MatchesAt(q, i) ==
    \/ IsAmountChar(q[i])
    \/ q[i] = "$" /\ i < Len(q) /\ IsAmountChar(q[i + 1])

RECURSIVE ScanFrom(_, _)
ScanFrom(q, i) ==
    IF i > Len(q) THEN 0
    ELSE IF MatchesAt(q, i) THEN i
    ELSE ScanFrom(q, i + 1)

MatchStart(q) == ScanFrom(q, 1)

\* The last position of the greedy run [\d,]+ that starts at s.
RECURSIVE RunEnd(_, _)
RunEnd(q, s) ==
    IF s < Len(q) /\ IsAmountChar(q[s + 1]) THEN RunEnd(q, s + 1) ELSE s

\* match.group(1): the greedy run of digits and commas.
Group1(q) ==
    LET m == MatchStart(q)
        s == IF q[m] = "$" THEN m + 1 ELSE m
    IN SubSeq(q, s, RunEnd(q, s))

\* .replace(",", "")
StripCommas(cs) == SelectSeq(cs, LAMBDA c : c # ",")

\* float() of a run of decimal digits.
RECURSIVE ParseDigits(_)
ParseDigits(cs) ==
    IF Len(cs) = 0 THEN 0
    ELSE 10 * ParseDigits(SubSeq(cs, 1, Len(cs) - 1)) + (IndexIn(cs[Len(cs)], DigitChars) - 1)

DefaultClicks == 1000

\* The synthetic campaign of the projection step.
Synthetic(rows, budget) ==
    LET n == Len(rows)
        avg_cpc == Rat(SumOf(rows, "cost_per_click"), 100 * n)
        avg_cpm == Rat(SumOf(rows, "cpm"), 100 * n)
        estimated_clicks ==
            IF avg_cpc.num > 0 THEN Rat(budget * avg_cpc.den, avg_cpc.num)
            ELSE Rat(DefaultClicks, 1)
    IN [clicks |-> estimated_clicks, cost_per_click |-> avg_cpc, cpm |-> avg_cpm]

\* The projection step: [projected_roi, the frame handed to the model (if
\* the step got that far), the number of predict calls it made].
Projection(b, query, rows) ==
    IF MatchStart(query) = 0
    THEN [projected_roi |-> None, synthetic |-> None, calls |-> 0]
    ELSE LET amount_str == StripCommas(Group1(query))
         IN IF amount_str = <<>>
            THEN [projected_roi |-> None, synthetic |-> None, calls |-> 0]
            ELSE LET syn == Synthetic(rows, ParseDigits(amount_str))
                 IN IF b.synthetic_ok
                    THEN [projected_roi |-> Some(RoundHalfEven(TreePredict(syn), 10)),
                          synthetic |-> Some(syn), calls |-> 1]
                    ELSE [projected_roi |-> None, synthetic |-> Some(syn), calls |-> 1]

\* A summary of nothing that reports an average of zero.
EmptySummaryWithAverage ==
    [high_performers |-> <<>>, low_performers |-> <<>>, average_roi |-> Some(0),
     top_features |-> <<>>, projected_roi |-> None]

EmptySummary ==
    [high_performers |-> <<>>, low_performers |-> <<>>, average_roi |-> None,
     top_features |-> <<>>, projected_roi |-> None]

\* The tool: [raised, the {"roi_summary": ...} it returns, the predict calls
\* it made, the synthetic frame it scored].
predict_and_explain(b, query, segment_json) ==
    LET segment_df == segment_json
    IN IF segment_df = <<>>
       THEN [raised |-> FALSE, roi_summary |-> Some(EmptySummary), calls |-> 0, synthetic |-> None]
       ELSE IF ~b.rows_ok
       THEN [raised |-> TRUE, roi_summary |-> None, calls |-> 1, synthetic |-> None]
       ELSE LET scored == WithPredictions(segment_df)
                avg_roi == RoundHalfEven(SumOf(scored, "predicted_roi"), 10 * Len(scored))
                proj == Projection(b, query, scored)
            IN [raised |-> FALSE,
                roi_summary |-> Some(
                    [high_performers |-> Labels(HighRows(scored)),
                     low_performers |-> Labels(LowRows(scored)),
                     average_roi |-> Some(avg_roi),
                     top_features |-> Explanation(b),
                     projected_roi |-> proj.projected_roi]),
                calls |-> 1 + proj.calls,
                synthetic |-> proj.synthetic]

(***************************************************************************)
(* generate_strategy and the hosted LLM chain.                             *)
(***************************************************************************)
\* What chain.run can do: return a text or raise with a message.
LLMOutcomes ==
    { [kind |-> "text",  text |-> Chars("Shift budget to paid search.")],
      [kind |-> "text",  text |-> Chars("")],
      [kind |-> "text",  text |-> Chars("Error: TOKEN_QUOTA_REACHED for this project")],
      [kind |-> "raise", text |-> Chars("connection timed out")],
      [kind |-> "raise", text |-> Chars("request failed, status code: 403")] }

ErrorPrefix == Chars("Strategy generation error: ")

generate_strategy(outcome) ==
    IF outcome.kind = "text" THEN outcome.text
    ELSE ErrorPrefix \o outcome.text

(***************************************************************************)
(* flow.py: FlowState, the three node functions and the graph's edges.     *)
(***************************************************************************)
FlowKeys == {"query", "segment_insight", "performance_analysis", "strategy_generator"}

\* graph_app.invoke({"query": query}): the other keys are not in the dict.
InitialState(query) ==
    [k \in FlowKeys |-> IF k = "query" THEN Some(query) ELSE None]

\* LangGraph writes the keys a node returns into the state, and only those.
Merge(st, update) ==
    [k \in FlowKeys |-> IF k \in DOMAIN update THEN Some(update[k]) ELSE st[k]]

segment_node_func(data, st) ==
    [segment_insight |-> segment_insight(data, st["query"][1])]

\* The tool's call, and the update the node returns when the tool returns.
performance_call(b, st) ==
    predict_and_explain(b, st["query"][1], st["segment_insight"][1])

\* A scoring node that also rewrites the segment it was given.
performance_node_func_rewrites_segment(result) ==
    [performance_analysis |-> [roi_summary |-> result.roi_summary[1]],
     segment_insight |-> <<>>]

performance_node_func(result) ==
    [performance_analysis |-> [roi_summary |-> result.roi_summary[1]]]

strategy_node_func(outcome) ==
    [strategy_generator |-> generate_strategy(outcome)]

\* set_entry_point, add_edge, set_finish_point.
EntryPoint == "segment_insight"

\* A graph whose first edge bypasses the scoring node.
EdgeSkipsScoring(node) ==
    CASE node = "segment_insight" -> "strategy_generator"
      [] node = "performance_analysis" -> "strategy_generator"
      [] node = "strategy_generator" -> "__end__"

Edge(node) ==
    CASE node = "segment_insight" -> "performance_analysis"
      [] node = "performance_analysis" -> "strategy_generator"
      [] node = "strategy_generator" -> "__end__"

(***************************************************************************)
(* main.py: /recommend.                                                    *)
(***************************************************************************)
\* The request bodies that are tried.
Queries ==
    { Chars("high cpc in Europe"),
      Chars("$20,000 budget for Watson paid search"),
      Chars("  best campaigns "),
      Chars("low roi, high cpc for $500"),
      Chars("top 3 in europe and asia"),
      Chars("Display in Europe"),
      Chars("Q3 cloud plan for $1,500"),
      Chars("   ") }

\* The fixed texts of step 4.  Nothing searches them, so each is kept as
\* one unit of text instead of character by character.
QuotaFallback ==
    << "LLM token quota exhausted for this project. Returning segment & performance analysis. Please add quota or switch to a smaller model / lower max_new_tokens to enable strategy generation." >>

NoStrategy == << "No strategy generated. Please refine your query." >>

QuotaMarker == Chars("token_quota_reached")
ForbiddenMarker == Chars("status code: 403")

\* A step 4 that looks for the quota marker without lower-casing the text.
StrategyTextCaseSensitive(strategy_text) ==
    IF \/ Contains(strategy_text, QuotaMarker)
       \/ Contains(strategy_text, ForbiddenMarker)
    THEN QuotaFallback
    ELSE IF strategy_text = <<>> THEN NoStrategy
    ELSE strategy_text

\* Step 4 of recommend.
StrategyText(strategy_text) ==
    IF \/ Contains(Lower(strategy_text), QuotaMarker)
       \/ Contains(strategy_text, ForbiddenMarker)
    THEN QuotaFallback
    ELSE IF strategy_text = <<>> THEN NoStrategy
    ELSE strategy_text

\* Steps 2, 3 and 6 of recommend: json.loads of the segment, the
\* PerformanceSummary built from roi_summary, the RecommendResponse.
Response(result) ==
    LET perf == result["performance_analysis"][1].roi_summary
    IN [segment |-> result["segment_insight"][1],
        performance |->
            [high_performers |-> perf.high_performers,
             low_performers |-> perf.low_performers,
             average_roi |-> perf.average_roi,
             top_features |-> perf.top_features,
             projected_roi |-> perf.projected_roi],
        strategy |-> StrategyText(result["strategy_generator"][1])]

(***************************************************************************)
(* The state machine.                                                      *)
(***************************************************************************)
InitWith(threads, longest) ==
    /\ df \in Datasets(longest)
    /\ booster \in Boosters
    /\ workers = threads
    /\ pc = [i \in Slots |-> "idle"]
    /\ state = [i \in Slots |-> [k \in FlowKeys |-> None]]
    /\ ran = [i \in Slots |-> <<>>]
    /\ calls = [i \in Slots |-> 0]
    /\ synthetic = [i \in Slots |-> None]
    /\ llm = [i \in Slots |-> None]
    /\ response = [i \in Slots |-> None]

\* One request at a time, and two requests served concurrently (FastAPI
\* runs a sync endpoint on its thread pool).
Init == InitWith({1}, MaxRows)

InitConcurrent == InitWith(Slots, MaxRowsConcurrent)

\* recommend up to graph_app.invoke: strip the query, 400 when it is empty.
RecommendStart(i, body_query) ==
    /\ pc[i] = "idle"
    /\ LET query == Strip(body_query)
       IN IF query = <<>>
          THEN /\ pc' = [pc EXCEPT ![i] = "rejected"]
               /\ UNCHANGED state
          ELSE /\ pc' = [pc EXCEPT ![i] = EntryPoint]
               /\ state' = [state EXCEPT ![i] = InitialState(query)]
    /\ UNCHANGED <<df, booster, workers, ran, calls, synthetic, llm, response>>

SegmentNode(i) ==
    /\ pc[i] = "segment_insight"
    /\ state' = [state EXCEPT ![i] = Merge(@, segment_node_func(df, @))]
    /\ ran' = [ran EXCEPT ![i] = Append(@, "segment_insight")]
    /\ pc' = [pc EXCEPT ![i] = Edge("segment_insight")]
    /\ df' = FrameAfterFilter(df, state[i]["query"][1])
    /\ UNCHANGED <<booster, workers, calls, synthetic, llm, response>>

\* An exception of the tool is caught nowhere: it leaves graph_app.invoke
\* and recommend, and the request fails.
PerformanceNode(i) ==
    /\ pc[i] = "performance_analysis"
    /\ LET result == performance_call(booster, state[i])
       IN /\ calls' = [calls EXCEPT ![i] = @ + result.calls]
          /\ synthetic' = [synthetic EXCEPT ![i] = result.synthetic]
          /\ ran' = [ran EXCEPT ![i] = Append(@, "performance_analysis")]
          /\ IF result.raised
             THEN /\ pc' = [pc EXCEPT ![i] = "failed"]
                  /\ UNCHANGED state
             ELSE /\ pc' = [pc EXCEPT ![i] = Edge("performance_analysis")]
                  /\ state' = [state EXCEPT ![i] = Merge(@, performance_node_func(result))]
    /\ UNCHANGED <<df, booster, workers, llm, response>>

StrategyNode(i, outcome) ==
    /\ pc[i] = "strategy_generator"
    /\ state' = [state EXCEPT ![i] = Merge(@, strategy_node_func(outcome))]
    /\ ran' = [ran EXCEPT ![i] = Append(@, "strategy_generator")]
    /\ pc' = [pc EXCEPT ![i] = Edge("strategy_generator")]
    /\ llm' = [llm EXCEPT ![i] = Some(outcome)]
    /\ UNCHANGED <<df, booster, workers, calls, synthetic, response>>

\* recommend after graph_app.invoke returned.
RecommendFinish(i) ==
    /\ pc[i] = "__end__"
    /\ response' = [response EXCEPT ![i] = Some(Response(state[i]))]
    /\ pc' = [pc EXCEPT ![i] = "responded"]
    /\ UNCHANGED <<df, booster, workers, state, ran, calls, synthetic, llm>>

Next ==
    \E i \in workers :
        \/ \E q \in Queries : RecommendStart(i, q)
        \/ SegmentNode(i)
        \/ PerformanceNode(i)
        \/ \E o \in LLMOutcomes : StrategyNode(i, o)
        \/ RecommendFinish(i)

Spec == Init /\ [][Next]_vars

SpecConcurrent == InitConcurrent /\ [][Next]_vars

(***************************************************************************)
(* Properties.                                                             *)
(***************************************************************************)
Present(i, key) == state[i][key] # None

Query(i) == state[i]["query"][1]

Segment(i) == state[i]["segment_insight"][1]

Summary(i) == state[i]["performance_analysis"][1].roi_summary

Range(seq) == { seq[k] : k \in 1..Len(seq) }

AllKeywords(col) ==
    UNION { Range(keyword_map[e].keywords) : e \in { x \in 1..Len(keyword_map) : keyword_map[x].col = col } }

\* The predicates a lower-cased query implies for one record.
Satisfies(row, query) ==
    /\ \A col \in {"region", "business_unit", "channel"} :
          \A k \in AllKeywords(col) :
              Contains(query, k) => Lower(Chars(Column(row, col))) = k
    /\ Contains(query, Chars("low roi")) => row.roi < 200
    /\ Contains(query, Chars("high cpc")) => row.cost_per_click > 200

Triggers(query) ==
    \/ \E col \in {"region", "business_unit", "channel"} :
          \E k \in AllKeywords(col) : Contains(query, k)
    \/ Contains(query, Chars("low roi"))
    \/ Contains(query, Chars("high cpc"))

\* C1: the segment returned for a query is exactly the dataset's records, in
\* the dataset's order, that satisfy every predicate the query implies (an
\* equality per keyword found in the lower-cased query, roi < 0.2 for "low
\* roi", cost_per_click > 2.0 for "high cpc"); it is a subset of the dataset
\* and, when the query triggers nothing, the whole dataset.
C1_SegmentIsExactlyTheMatches ==
    \A i \in Slots :
        Present(i, "segment_insight") =>
            LET query == Lower(Query(i))
            IN /\ Segment(i) = SelectSeq(df, LAMBDA row : Satisfies(row, query))
               /\ \A k \in 1..Len(Segment(i)) :
                     Segment(i)[k] \in Range(df) /\ Satisfies(Segment(i)[k], query)
               /\ ~Triggers(query) => Segment(i) = df

\* A query with a region keyword and a performance phrase that kept some
\* records of the dataset and dropped others.
C1_Witness ==
    \E i \in Slots :
        /\ Present(i, "segment_insight")
        /\ Contains(Lower(Query(i)), Chars("europe"))
        /\ Contains(Lower(Query(i)), Chars("high cpc"))
        /\ Segment(i) # <<>>
        /\ Len(Segment(i)) < Len(df)

\* C2: the nodes run in the order segment_insight, performance_analysis,
\* strategy_generator, each at most once and each only when the one before
\* it has returned; a run that is at a node has executed exactly the nodes
\* before it, and a run that reached the end has executed all three once.
NodeOrder == <<"segment_insight", "performance_analysis", "strategy_generator">>

C2_StagesRunInOrder ==
    \A i \in Slots :
        /\ Len(ran[i]) <= Len(NodeOrder)
        /\ ran[i] = SubSeq(NodeOrder, 1, Len(ran[i]))
        /\ \A n \in 1..Len(NodeOrder) : pc[i] = NodeOrder[n] => Len(ran[i]) = n - 1
        /\ pc[i] \in {"__end__", "responded"} => ran[i] = NodeOrder
        /\ pc[i] \in {"idle", "rejected"} => ran[i] = <<>>

\* A run over an empty segment that reached the end.
C2_Witness ==
    \E i \in Slots :
        /\ pc[i] = "__end__"
        /\ Segment(i) = <<>>
        /\ ran[i] = NodeOrder

\* C3: no stage fails the pipeline: whatever a stage's outcome, the run
\* goes on to the end and no error reaches the caller.
C3_NoStageFailsThePipeline == \A i \in Slots : pc[i] # "failed"

\* C4: the state is append-only.  It starts with query alone; a step
\* writes at most the one key of the node that runs (query when the run
\* starts), a key that is written never changes, and at every node the
\* state holds exactly query and the keys of the nodes before it.
PresentKeys(st) == { k \in FlowKeys : st[k] # None }

KeysAt(position) ==
    CASE position \in {"idle", "rejected"} -> {}
      [] position = "segment_insight" -> {"query"}
      [] position \in {"performance_analysis", "failed"} -> {"query", "segment_insight"}
      [] position = "strategy_generator" -> {"query", "segment_insight", "performance_analysis"}
      [] position \in {"__end__", "responded"} -> FlowKeys

C4_Step(i) ==
    /\ \A k \in FlowKeys : state[i][k] # None => state'[i][k] = state[i][k]
    /\ \A k \in FlowKeys :
          state'[i][k] # state[i][k] => k = (IF pc[i] = "idle" THEN "query" ELSE pc[i])
    /\ PresentKeys(state'[i]) = KeysAt(pc'[i])

C4_StateIsAppendOnly == [][\A i \in Slots : C4_Step(i)]_vars

\* A run that reached the end: all four keys are written.
C4_Witness ==
    \E i \in Slots : pc[i] = "__end__" /\ PresentKeys(state[i]) = FlowKeys

\* C5: scoring an empty segment gives empty performer lists, no average, an
\* empty explanation and no projection, whatever the query, and never calls
\* the model.
C5_EmptySegmentShortCircuits ==
    \A i \in Slots :
        (Len(ran[i]) >= 2 /\ Segment(i) = <<>>) =>
            /\ Present(i, "performance_analysis")
            /\ Summary(i).high_performers = <<>>
            /\ Summary(i).low_performers = <<>>
            /\ Summary(i).average_roi = None
            /\ Summary(i).top_features = <<>>
            /\ Summary(i).projected_roi = None
            /\ calls[i] = 0

\* An empty segment scored for a query that names a budget.
C5_Witness ==
    \E i \in Slots :
        /\ Present(i, "performance_analysis")
        /\ Segment(i) = <<>>
        /\ \E k \in 1..Len(Query(i)) : Query(i)[k] \in DigitSet
        /\ df # <<>>

\* C6: over a non-empty segment, high_performers lists, in the segment's
\* order, one label per record with recorded roi > 2.0 and low_performers
\* one per record with recorded roi < 1.0; no record is in both and a record
\* with 1.0 <= roi <= 2.0 is in neither.
NthOf(S, n) == CHOOSE x \in S : Cardinality({ y \in S : y < x }) = n - 1

IsLabelOf(label, row) ==
    /\ label.business_unit = row.business_unit
    /\ label.channel = row.channel
    /\ label.region = row.region
    /\ 10 * label.roi - row.roi \in -5..5

ListsExactly(labels, rows, indexes) ==
    /\ Len(labels) = Cardinality(indexes)
    /\ \A n \in 1..Len(labels) : IsLabelOf(labels[n], rows[NthOf(indexes, n)])

C6_PartitionByActualRoi ==
    \A i \in Slots :
        (Present(i, "performance_analysis") /\ Segment(i) # <<>>) =>
            LET rows == Segment(i)
                high == { k \in 1..Len(rows) : rows[k].roi > 2000 }
                low == { k \in 1..Len(rows) : rows[k].roi < 1000 }
            IN /\ ListsExactly(Summary(i).high_performers, rows, high)
               /\ ListsExactly(Summary(i).low_performers, rows, low)
               /\ high \cap low = {}
               /\ Len(Summary(i).high_performers) + Len(Summary(i).low_performers)
                     = Len(rows) - Cardinality({ k \in 1..Len(rows) :
                                                    rows[k].roi >= 1000 /\ rows[k].roi <= 2000 })

\* A segment with a high performer, a low performer and a record whose roi
\* of 1.999 rounds to 2.0 in its label and is in neither list.
C6_Witness ==
    \E i \in Slots :
        /\ Present(i, "performance_analysis")
        /\ Len(Segment(i)) = 3
        /\ Len(Summary(i).high_performers) = 1
        /\ Len(Summary(i).low_performers) = 1
        /\ \E k \in 1..3 : Segment(i)[k].roi = 1999

\* The amounts a query names: the value of every maximal run of digits and
\* commas that holds a digit.
AmountValues(q) ==
    { ParseDigits(StripCommas(SubSeq(q, s, RunEnd(q, s)))) :
        s \in { k \in 1..Len(q) :
                  /\ IsAmountChar(q[k])
                  /\ (k = 1 \/ ~IsAmountChar(q[k - 1]))
                  /\ \E d \in k..RunEnd(q, k) : q[d] \in DigitSet } }

Scored(i) == Present(i, "performance_analysis") /\ Segment(i) # <<>>

\* C7: over a non-empty segment, projected_roi is absent when the query
\* names no amount, present when it names one and the projection's
\* prediction succeeds, and absent when that prediction fails; the other
\* four fields are there in every case.
C7_ProjectionFollowsTheAmount ==
    \A i \in Slots :
        Scored(i) =>
            /\ AmountValues(Query(i)) = {} => Summary(i).projected_roi = None
            /\ (AmountValues(Query(i)) # {} /\ booster.synthetic_ok)
                  => Summary(i).projected_roi # None
            /\ (AmountValues(Query(i)) # {} /\ ~booster.synthetic_ok)
                  => Summary(i).projected_roi = None
            /\ Summary(i).average_roi # None
            /\ Summary(i).top_features # <<>>

\* C8 as stated: the delivered strategy is never empty; a failed strategy
\* stage or a text that signals quota exhaustion gives the fixed fallback
\* message, an empty text the "No strategy generated" message, any other
\* text is delivered as it is; segment and summary are returned unchanged.
SignalsQuota(text) ==
    \/ Contains(Lower(text), Chars("token_quota_reached"))
    \/ Contains(text, Chars("status code: 403"))

ReturnsEarlierResults(i) ==
    /\ response[i][1].segment = Segment(i)
    /\ response[i][1].performance = Summary(i)

C8_FailureGivesTheFixedFallback ==
    \A i \in Slots :
        pc[i] = "responded" =>
            LET out == llm[i][1]
                strategy == response[i][1].strategy
            IN /\ strategy # <<>>
               /\ (out.kind = "raise" \/ SignalsQuota(out.text)) => strategy = QuotaFallback
               /\ (out.kind = "text" /\ out.text = <<>>) => strategy = NoStrategy
               /\ (out.kind = "text" /\ out.text # <<>> /\ ~SignalsQuota(out.text))
                     => strategy = out.text
               /\ ReturnsEarlierResults(i)

\* C8 amended: a strategy stage that raises delivers the text "Strategy
\* generation error: <message>"; that text or a returned text is replaced by
\* the fixed fallback message only when it signals quota exhaustion, an
\* empty returned text by the "No strategy generated" message, and any other
\* text is delivered as it is.  The delivered text is never empty, the
\* strategy stage never fails the request, and segment and summary are
\* returned unchanged.
C8_StrategyTextDelivered ==
    \A i \in Slots :
        /\ pc[i] = "failed" => Len(ran[i]) < 3
        /\ pc[i] = "responded" =>
              LET out == llm[i][1]
                  text == IF out.kind = "raise"
                          THEN Chars("Strategy generation error: ") \o out.text
                          ELSE out.text
                  strategy == response[i][1].strategy
              IN /\ strategy # <<>>
                 /\ SignalsQuota(text) => strategy = QuotaFallback
                 /\ (~SignalsQuota(text) /\ text = <<>>) => strategy = NoStrategy
                 /\ (~SignalsQuota(text) /\ text # <<>>) => strategy = text
                 /\ ReturnsEarlierResults(i)

\* A query that matched no row, whose strategy stage raised without any
\* sign of quota exhaustion: the error text is delivered.
C8_Witness ==
    \E i \in Slots :
        /\ pc[i] = "responded"
        /\ response[i][1].segment = <<>>
        /\ llm[i][1].kind = "raise"
        /\ response[i][1].strategy # QuotaFallback

\* C9: no invocation changes the dataset or the model, and two invocations
\* with the same query, however their steps interleave, get the same
\* segment, the same summary and make the same calls of the model.
SameResults(i, j) ==
    /\ (Present(i, "segment_insight") /\ Present(j, "segment_insight"))
          => Segment(i) = Segment(j)
    /\ (Present(i, "performance_analysis") /\ Present(j, "performance_analysis"))
          => /\ Summary(i) = Summary(j)
             /\ calls[i] = calls[j]
             /\ synthetic[i] = synthetic[j]

C9_SharedStateIsNeverMutated ==
    /\ [](\A i, j \in Slots :
            (Present(i, "query") /\ Present(j, "query") /\ Query(i) = Query(j))
                => SameResults(i, j))
    /\ [][df' = df /\ booster' = booster]_vars

\* Two invocations with one query, the second still running when the first
\* has answered, over a segment that kept the dataset's row.
C9_Witness ==
    \E i, j \in Slots :
        /\ i # j
        /\ pc[i] = "responded"
        /\ pc[j] = "strategy_generator"
        /\ Query(i) = Query(j)
        /\ Segment(j) # <<>>
        /\ Segment(j) = df

\* C10: when the query names an amount, a synthetic record is scored whose
\* cost_per_click and cpm are the segment's means and whose clicks are that
\* amount (commas stripped) divided by the mean cost_per_click when that is
\* positive, and 1000 otherwise; "$20,000 ..." gives a budget of 20000.
RECURSIVE TotalOf(_, _, _)
TotalOf(rows, field, n) ==
    IF n = 0 THEN 0 ELSE rows[n][field] + TotalOf(rows, field, n - 1)

RECURSIVE Gcd(_, _)
Gcd(a, b) == IF b = 0 THEN a ELSE Gcd(b, a % b)

\* r = n / d, both sides in lowest terms.
RatEq(r, n, d) ==
    LET g == Gcd(r.num, r.den)
        h == Gcd(n, d)
    IN r.num \div g = n \div h /\ r.den \div g = d \div h

SyntheticFor(syn, rows, budget) ==
    LET n == Len(rows)
        cpc == TotalOf(rows, "cost_per_click", n)
        cpm == TotalOf(rows, "cpm", n)
    IN /\ RatEq(syn.cost_per_click, cpc, 100 * n)
       /\ RatEq(syn.cpm, cpm, 100 * n)
       /\ IF cpc > 0 THEN RatEq(syn.clicks, budget * 100 * n, cpc)
          ELSE RatEq(syn.clicks, 1000, 1)

C10_BudgetIsTheQueryAmount ==
    \A i \in Slots :
        (Scored(i) /\ AmountValues(Query(i)) # {}) =>
            /\ synthetic[i] # None
            /\ \E budget \in AmountValues(Query(i)) :
                  /\ SyntheticFor(synthetic[i][1], Segment(i), budget)
                  /\ Query(i) = Chars("$20,000 budget for Watson paid search")
                        => budget = 20000

=============================================================================
